---- MODULE Spec2Model ----
(***************************************************************************)
(* Model of scripts/davinci-resolve-bridge.py: a command-line bridge that  *)
(* runs one command per process against the DaVinci Resolve scripting SDK  *)
(* and prints one JSON object.                                             *)
(*                                                                         *)
(* Strings the code inspects character by character (folder paths, folder  *)
(* names) are sequences of one-character strings.  Messages are tuples     *)
(* <<text>> or <<text, detail>>.  A JSON object is a record; a key the     *)
(* code does not put into the dict is outside the record's DOMAIN.         *)
(***************************************************************************)
EXTENDS Integers, Sequences, FiniteSets, TLC

VARIABLES folders, current, pc, argv, sdk, stdout, exit, log, called

vars == <<folders, current, pc, argv, sdk, stdout, exit, log, called>>

-----------------------------------------------------------------------------
(* Bounds *)

\* most folders below the root that the media pool holds
MaxFolders == 2

\* an SDK AddSubFolder call may return None at its 1st .. MaxFailAt-th use
MaxFailAt == 2

-----------------------------------------------------------------------------
(* Values *)

\* Python's None
None == <<"None">>

\* the root folder of the media pool, and the name the SDK gives it
Root == 0
MasterName == <<"M", "a", "s", "t", "e", "r">>

\* the name of the project that is open when one is open
ProjectName == <<"P">>

\* what str(e) gives for the exception the SDK call `site` raised
Raised(site) == <<"raised", <<site>>>>

\* the situations of the application that initialize_resolve tells apart,
\* and whether a project is open
AppStates == {"nosdk", "badsdk", "down", "noproject", "open"}

\* the files of the file system: <<directory, base name>>
ExistingFiles == {<<"/m", "a.mp4">>}
Files == ExistingFiles \cup {<<"/m", "gone.mp4">>}

\* a bridge that does not check the file
path_exists_always(file) == TRUE

\* os.path.exists
path_exists(file) == file \in ExistingFiles

\* os.path.basename: the last component, as a name
basename(file) == <<file[Len(file)]>>

-----------------------------------------------------------------------------
(* str.split and str.strip *)

IndexOf(s, c) ==
    IF \E i \in 1..Len(s) : s[i] = c
    THEN CHOOSE i \in 1..Len(s) : s[i] = c /\ \A j \in 1..(i-1) : s[j] # c
    ELSE 0

RECURSIVE split(_, _)
split(s, sep) ==
    LET i == IndexOf(s, sep) IN
    IF i = 0 THEN <<s>>
    ELSE <<SubSeq(s, 1, i-1)>> \o split(SubSeq(s, i+1, Len(s)), sep)

\* a strip that trims the left end only
RECURSIVE strip_left(_)
strip_left(s) ==
    IF s = <<>> THEN s
    ELSE IF s[1] = " " THEN strip_left(Tail(s))
    ELSE s

RECURSIVE strip(_)
strip(s) ==
    IF s = <<>> THEN s
    ELSE IF s[1] = " " THEN strip(Tail(s))
    ELSE IF s[Len(s)] = " " THEN strip(SubSeq(s, 1, Len(s)-1))
    ELSE s

-----------------------------------------------------------------------------
(* The SDK: the folder tree of the media pool.  folders[i] is the folder   *)
(* with handle i, Root is handle 0.                                        *)

GetName(fs, f) == IF f = Root THEN MasterName ELSE fs[f].name

RECURSIVE SubFolderFrom(_, _, _)
SubFolderFrom(fs, f, i) ==
    IF i > Len(fs) THEN <<>>
    ELSE IF fs[i].parent = f THEN <<i>> \o SubFolderFrom(fs, f, i+1)
    ELSE SubFolderFrom(fs, f, i+1)

\* folder.GetSubFolderList(): the immediate subfolders, in the SDK's order
GetSubFolderList(fs, f) == SubFolderFrom(fs, f, 1)

\* media_pool.AddSubFolder(parent, name) when it succeeds
AddSubFolder(fs, parent, name) == Append(fs, [name |-> name, parent |-> parent])

\* the number of AddSubFolder calls in a call log
RECURSIVE CountAdds(_)
CountAdds(l) ==
    IF l = <<>> THEN 0
    ELSE (IF Head(l)[1] = "AddSubFolder" THEN 1 ELSE 0) + CountAdds(Tail(l))

-----------------------------------------------------------------------------
(* A handler runs on a machine st = [fs, cur, log, exc]: the folder tree,  *)
(* the current folder, the SDK calls made so far and the exception that    *)
(* is propagating (None when there is none).  o is the behaviour of the    *)
(* SDK during this invocation.                                             *)

\* one SDK call: it is logged, and it raises when the SDK makes it raise
Call(st, entry, o) ==
    IF st.exc # None THEN st
    ELSE IF entry[1] \in o.raises
         THEN [st EXCEPT !.log = Append(@, entry), !.exc = Raised(entry[1])]
         ELSE [st EXCEPT !.log = Append(@, entry)]

RECURSIVE Calls(_, _, _)
Calls(st, entries, o) ==
    IF entries = <<>> THEN st
    ELSE Calls(Call(st, Head(entries), o), Tail(entries), o)

\* what a handler hands back to main: a returned dict or a raised exception
Ret(st, result) == [kind |-> "ret", result |-> result, exc |-> None,
                    fs |-> st.fs, cur |-> st.cur, log |-> st.log]
Exc(st) == [kind |-> "exc", result |-> [error |-> st.exc], exc |-> st.exc,
            fs |-> st.fs, cur |-> st.cur, log |-> st.log]

\* get_resolve_script_path: None when no scripting module is installed
get_resolve_script_path(a) == IF a = "nosdk" THEN None ELSE <<"Modules">>

\* a bridge that does not check what scriptapp returned
initialize_resolve_unchecked(st, a, o) ==
    IF get_resolve_script_path(a) = None
    THEN [st |-> st, error |-> <<"DaVinci Resolve scripting module not found">>]
    ELSE IF a = "badsdk"
    THEN [st |-> [st EXCEPT !.log = Append(@, <<"import">>)],
          error |-> <<"Failed to import DaVinciResolveScript: ", <<"ImportError">>>>]
    ELSE [st |-> [st EXCEPT !.log = @ \o <<<<"import">>, <<"scriptapp">>>>],
          error |-> None]

\* initialize_resolve: (resolve, error), with the connection attempts logged
initialize_resolve(st, a, o) ==
    IF get_resolve_script_path(a) = None
    THEN [st |-> st, error |-> <<"DaVinci Resolve scripting module not found">>]
    ELSE IF a = "badsdk"
    THEN [st |-> [st EXCEPT !.log = Append(@, <<"import">>)],
          error |-> <<"Failed to import DaVinciResolveScript: ", <<"ImportError">>>>]
    ELSE LET s1 == [st EXCEPT !.log = @ \o <<<<"import">>, <<"scriptapp">>>>] IN
         IF "scriptapp" \in o.raises
         THEN [st |-> s1,
               error |-> <<"Failed to connect to DaVinci Resolve: ", Raised("scriptapp")>>]
         ELSE IF a = "down"
         THEN [st |-> s1, error |-> <<"DaVinci Resolve is not running">>]
         ELSE [st |-> s1, error |-> None]

\* get_status
get_status(st0, a, o) ==
    LET c == initialize_resolve(st0, a, o) IN
    IF c.error # None
    THEN Ret(c.st, [connected |-> FALSE, error |-> c.error,
                    project |-> None, mediaPoolFolder |-> None])
    ELSE
    LET s1 == Calls(c.st, <<<<"GetProjectManager">>, <<"GetCurrentProject">>>>, o) IN
    IF s1.exc # None THEN Exc(s1)
    ELSE IF a # "open"
    THEN Ret(s1, [connected |-> TRUE, error |-> <<"No active project in DaVinci Resolve">>,
                  project |-> None, mediaPoolFolder |-> None])
    ELSE
    LET s2 == Calls(s1, <<<<"ProjectGetName">>, <<"GetMediaPool">>,
                          <<"GetCurrentFolder">>, <<"FolderGetName", s1.cur>>>>, o) IN
    IF s2.exc # None THEN Exc(s2)
    ELSE Ret(s2, [connected |-> TRUE, error |-> None, project |-> ProjectName,
                  mediaPoolFolder |-> GetName(s2.fs, s2.cur)])

-----------------------------------------------------------------------------
(* Folder-path resolution *)

\* a lookup that never finds the folder
FirstMatch_none(fs, subs, part) == 0

\* the position in subs of the first folder named part, 0 when there is none
FirstMatch(fs, subs, part) ==
    IF \E k \in 1..Len(subs) : GetName(fs, subs[k]) = part
    THEN CHOOSE k \in 1..Len(subs) :
            /\ GetName(fs, subs[k]) = part
            /\ \A j \in 1..(k-1) : GetName(fs, subs[j]) # part
    ELSE 0

\* a search that looks for the name in the whole tree, at any depth
lookup_anywhere(st, cur, part, o) ==
    LET s1   == Call(st, <<"GetSubFolderList", cur>>, o)
        all  == [i \in 1..Len(st.fs) |-> i]
        k    == FirstMatch(st.fs, all, part)
        seen == IF k = 0 THEN all ELSE SubSeq(all, 1, k)
        s2   == Calls(s1, [i \in 1..Len(seen) |-> <<"FolderGetName", seen[i]>>], o)
    IN  [st |-> s2, found |-> k # 0, folder |-> IF k = 0 THEN cur ELSE all[k]]

\* the search of the immediate subfolders of cur for the name part
\* (lines 131-138 and 339-343): GetSubFolderList, then GetName on each
\* subfolder up to the first match
lookup(st, cur, part, o) ==
    LET s1   == Call(st, <<"GetSubFolderList", cur>>, o)
        subs == GetSubFolderList(st.fs, cur)
        k    == FirstMatch(st.fs, subs, part)
        seen == IF k = 0 THEN subs ELSE SubSeq(subs, 1, k)
        s2   == Calls(s1, [i \in 1..Len(seen) |-> <<"FolderGetName", seen[i]>>], o)
    IN  [st |-> s2, found |-> k # 0, folder |-> IF k = 0 THEN cur ELSE subs[k]]

\* the loop of find_or_create_folder_path over the remaining segments
RECURSIVE walk(_, _, _, _)
walk(st, cur, parts, o) ==
    IF st.exc # None \/ parts = <<>> THEN [st |-> st, folder |-> cur]
    ELSE
    LET part == strip(Head(parts)) IN
    IF part = <<>> THEN walk(st, cur, Tail(parts), o)
    ELSE
    LET l == lookup(st, cur, part, o) IN
    IF l.st.exc # None THEN [st |-> l.st, folder |-> cur]
    ELSE IF l.found THEN walk(l.st, l.folder, Tail(parts), o)
    ELSE
    LET s3 == Call(l.st, <<"AddSubFolder", cur, part>>, o) IN
    IF s3.exc # None THEN [st |-> s3, folder |-> cur]
    ELSE IF CountAdds(s3.log) = o.failAt
    THEN [st |-> s3, folder |-> cur]
    ELSE walk([s3 EXCEPT !.fs = AddSubFolder(@, cur, part)],
              Len(s3.fs) + 1, Tail(parts), o)

\* find_or_create_folder_path(media_pool, root_folder, folder_path)
find_or_create_folder_path(st, root_folder, folder_path, o) ==
    IF folder_path = <<>> THEN [st |-> st, folder |-> root_folder]
    ELSE walk(st, root_folder, split(folder_path, "/"), o)

-----------------------------------------------------------------------------
(* Media import *)

\* the metadata keys the code reads, in the order it reads them
MetadataKeys == <<"scene", "comments", "description">>

\* metadata = None
NoMetadata == [kind |-> "none", keys |-> {}, truthy |-> FALSE]

\* json.loads of the 5th argument: a dict (written as its keys that have a
\* non-empty value), another JSON value, or a JSONDecodeError
json_loads(text) ==
    IF text = <<>> THEN [kind |-> "error", keys |-> {}, truthy |-> FALSE]
    ELSE IF text[1] = "{" /\ text[Len(text)] = "}"
    THEN [kind |-> "dict", keys |-> {text[i] : i \in 2..(Len(text)-1)},
          truthy |-> Len(text) > 2]
    ELSE IF text[1] = "[" /\ text[Len(text)] = "]"
    THEN [kind |-> "other", keys |-> {}, truthy |-> Len(text) > 2]
    ELSE [kind |-> "error", keys |-> {}, truthy |-> FALSE]

\* a rename that takes the new name before SetClipProperty has succeeded
rename_clip_eager(st, name, clip_name, o) ==
    IF clip_name = None THEN [st |-> st, name |-> name]
    ELSE [st |-> [st EXCEPT !.log = Append(@, <<"SetClipProperty", clip_name>>)],
          name |-> clip_name]

\* the rename of the imported clip (lines 221-231): the exception of
\* SetClipProperty is swallowed and leaves the name that GetName gave
rename_clip(st, name, clip_name, o) ==
    IF clip_name = None THEN [st |-> st, name |-> name]
    ELSE IF "SetClipProperty" \in o.raises
    THEN [st |-> [st EXCEPT !.log = Append(@, <<"SetClipProperty", clip_name>>)],
          name |-> name]
    ELSE [st |-> [st EXCEPT !.log = Append(@, <<"SetClipProperty", clip_name>>)],
          name |-> clip_name]

\* the metadata block (lines 234-246): every exception in it is swallowed
\* and logged to the error stream
RECURSIVE set_metadata(_, _, _, _)
set_metadata(st, metadata, i, o) ==
    IF ~metadata.truthy THEN st
    ELSE IF metadata.kind # "dict" THEN [st EXCEPT !.log = Append(@, <<"warning">>)]
    ELSE IF i > Len(MetadataKeys) THEN st
    ELSE IF MetadataKeys[i] \notin metadata.keys THEN set_metadata(st, metadata, i+1, o)
    ELSE IF "SetMetadata" \in o.raises
    THEN [st EXCEPT !.log = @ \o <<<<"SetMetadata", MetadataKeys[i]>>, <<"warning">>>>]
    ELSE set_metadata([st EXCEPT !.log = Append(@, <<"SetMetadata", MetadataKeys[i]>>)],
                      metadata, i+1, o)

\* import_media is modelled in stages; each stage is handed the machine
\* the stage before it left.

\* lines 248-254, after the metadata block
import_tagged(st, project_name, folder_name, final_clip_name) ==
    Ret(st, [success |-> TRUE, error |-> None, project |-> project_name,
             folder |-> folder_name, clipName |-> final_clip_name])

\* lines 220-246: rename, then tag
import_renamed(r, folder_name, metadata, o) ==
    import_tagged(set_metadata(r.st, metadata, 1, o), ProjectName, folder_name, r.name)

\* lines 217-218, after clip.GetName() when there is a clip
import_clip(st, file_path, folder_name, clip_name, metadata, o) ==
    IF st.exc # None THEN Exc(st)
    ELSE IF o.imp = "clip"
    THEN import_renamed(rename_clip(st, basename(file_path), clip_name, o),
                        folder_name, metadata, o)
    ELSE import_tagged(st, ProjectName, folder_name, basename(file_path))

\* lines 216 and 255-261, after ImportMedia
import_imported(st, file_path, folder_name, clip_name, metadata, o) ==
    IF st.exc # None THEN Exc(st)
    ELSE IF o.imp = "empty"
    THEN Ret(st, [success |-> FALSE,
                  error |-> <<"Failed to import media into DaVinci Resolve">>,
                  project |-> ProjectName, folder |-> folder_name])
    ELSE import_clip(IF o.imp = "clip" THEN Call(st, <<"ClipGetName">>, o) ELSE st,
                     file_path, folder_name, clip_name, metadata, o)

\* line 214, after SetCurrentFolder
import_current(st, folder, file_path, folder_name, clip_name, metadata, o) ==
    import_imported(IF st.exc # None THEN st
                    ELSE Call([st EXCEPT !.cur = folder],
                              <<"ImportMedia", folder, file_path>>, o),
                    file_path, folder_name, clip_name, metadata, o)

\* line 211, with the folder to import into and its name
import_into(st, folder, file_path, folder_name, clip_name, metadata, o) ==
    import_current(Call(st, <<"SetCurrentFolder", folder>>, o), folder,
                   file_path, folder_name, clip_name, metadata, o)

\* lines 203-208, after find_or_create_folder_path when there is a target
import_resolved(w, file_path, target_folder, clip_name, metadata, o) ==
    IF target_folder # None
    THEN import_into(Call(w.st, <<"FolderGetName", w.folder>>, o), w.folder,
                     file_path, GetName(w.st.fs, w.folder), clip_name, metadata, o)
    ELSE import_into(w.st, Root, file_path, MasterName, clip_name, metadata, o)

\* lines 196-207, after the project's name, media pool and root folder
import_project(st, file_path, target_folder, clip_name, metadata, o) ==
    IF st.exc # None THEN Exc(st)
    ELSE import_resolved(IF target_folder # None
                         THEN find_or_create_folder_path(st, Root, target_folder, o)
                         ELSE [st |-> st, folder |-> Root],
                         file_path, target_folder, clip_name, metadata, o)

\* lines 188-200, after GetCurrentProject
import_connected(st, a, file_path, target_folder, clip_name, metadata, o) ==
    IF st.exc # None THEN Exc(st)
    ELSE IF a # "open"
    THEN Ret(st, [success |-> FALSE, error |-> <<"No active project in DaVinci Resolve">>,
                  project |-> None, folder |-> None])
    ELSE import_project(Calls(st, <<<<"ProjectGetName">>, <<"GetMediaPool">>,
                                    <<"GetRootFolder">>>>, o),
                        file_path, target_folder, clip_name, metadata, o)

\* lines 167-186, after initialize_resolve
import_checked(c, a, file_path, target_folder, clip_name, metadata, o) ==
    IF c.error # None
    THEN Ret(c.st, [success |-> FALSE, error |-> c.error,
                    project |-> None, folder |-> None])
    ELSE IF ~path_exists(file_path)
    THEN Ret(c.st, [success |-> FALSE, error |-> <<"File not found: ", file_path>>,
                    project |-> None, folder |-> None])
    ELSE import_connected(Calls(c.st, <<<<"GetProjectManager">>,
                                        <<"GetCurrentProject">>>>, o),
                          a, file_path, target_folder, clip_name, metadata, o)

\* import_media(file_path, target_folder, clip_name, metadata)
import_media(st0, a, file_path, target_folder, clip_name, metadata, o) ==
    import_checked(initialize_resolve(st0, a, o), a,
                   file_path, target_folder, clip_name, metadata, o)

-----------------------------------------------------------------------------
(* Folder listing and folder creation *)

\* a walk that hands the parent's path, not its own, down to the subfolders
RECURSIVE get_folder_tree_flat(_, _, _)
RECURSIVE tree_of_each_flat(_, _, _)
get_folder_tree_flat(fs, folder, path) ==
    LET name == GetName(fs, folder)
        current_path == IF path # <<>> THEN path \o <<"/">> \o name ELSE name
    IN  <<[name |-> name, path |-> current_path]>>
        \o tree_of_each_flat(fs, GetSubFolderList(fs, folder), path)
tree_of_each_flat(fs, subfolders, current_path) ==
    IF subfolders = <<>> THEN <<>>
    ELSE get_folder_tree_flat(fs, Head(subfolders), current_path)
         \o tree_of_each_flat(fs, Tail(subfolders), current_path)

\* list_folders.get_folder_tree(folder, path), on a tree no call changes
RECURSIVE get_folder_tree(_, _, _)
RECURSIVE tree_of_each(_, _, _)
get_folder_tree(fs, folder, path) ==
    LET name == GetName(fs, folder)
        current_path == IF path # <<>> THEN path \o <<"/">> \o name ELSE name
    IN  <<[name |-> name, path |-> current_path]>>
        \o tree_of_each(fs, GetSubFolderList(fs, folder), current_path)
tree_of_each(fs, subfolders, current_path) ==
    IF subfolders = <<>> THEN <<>>
    ELSE get_folder_tree(fs, Head(subfolders), current_path)
         \o tree_of_each(fs, Tail(subfolders), current_path)

\* list_folders
list_folders(st0, a, o) ==
    LET c == initialize_resolve(st0, a, o) IN
    IF c.error # None
    THEN Ret(c.st, [success |-> FALSE, error |-> c.error, folders |-> <<>>])
    ELSE
    LET s1 == Calls(c.st, <<<<"GetProjectManager">>, <<"GetCurrentProject">>>>, o) IN
    IF s1.exc # None THEN Exc(s1)
    ELSE IF a # "open"
    THEN Ret(s1, [success |-> FALSE, error |-> <<"No active project">>, folders |-> <<>>])
    ELSE
    LET s2 == Calls(s1, <<<<"GetMediaPool">>, <<"GetRootFolder">>,
                          <<"FolderGetName", Root>>, <<"GetSubFolderList", Root>>>>, o) IN
    IF s2.exc # None THEN Exc(s2)
    ELSE Ret(s2, [success |-> TRUE, error |-> None,
                  folders |-> get_folder_tree(s2.fs, Root, <<>>)])

\* a bridge that does not look at what AddSubFolder returned
create_result_ok(new_folder, folder_name) ==
    [success |-> TRUE, error |-> None, folderName |-> folder_name]

\* a bridge that names the folder in the failure dict too
create_result_named(new_folder, folder_name) ==
    IF new_folder
    THEN [success |-> TRUE, error |-> None, folderName |-> folder_name]
    ELSE [success |-> FALSE,
          error |-> <<"Failed to create folder '", folder_name, "'">>,
          folderName |-> folder_name]

\* the dict create_folder returns for what AddSubFolder gave (lines 348-358)
create_result(new_folder, folder_name) ==
    IF new_folder
    THEN [success |-> TRUE, error |-> None, folderName |-> folder_name]
    ELSE [success |-> FALSE,
          error |-> <<"Failed to create folder '", folder_name, "'">>]

\* lines 346-358, after AddSubFolder
create_added(st, parent_folder, folder_name, o) ==
    IF st.exc # None THEN Exc(st)
    ELSE IF CountAdds(st.log) = o.failAt
    THEN Ret(st, create_result(FALSE, folder_name))
    ELSE Ret([st EXCEPT !.fs = AddSubFolder(@, parent_folder, folder_name)],
             create_result(TRUE, folder_name))

\* lines 337-346, after the search for the parent
create_in(l, folder_name, o) ==
    create_added(Call(l.st, <<"AddSubFolder", l.folder, folder_name>>, o),
                 l.folder, folder_name, o)

\* lines 333-343, after the media pool and the root folder
create_project(st, folder_name, parent_path, o) ==
    create_in(IF parent_path = None \/ parent_path = <<>>
              THEN [st |-> st, found |-> FALSE, folder |-> Root]
              ELSE lookup(st, Root, parent_path, o),
              folder_name, o)

\* lines 327-334, after GetCurrentProject
create_connected(st, a, folder_name, parent_path, o) ==
    IF st.exc # None THEN Exc(st)
    ELSE IF a # "open"
    THEN Ret(st, [success |-> FALSE, error |-> <<"No active project">>])
    ELSE create_project(Calls(st, <<<<"GetMediaPool">>, <<"GetRootFolder">>>>, o),
                        folder_name, parent_path, o)

\* lines 318-325, after initialize_resolve
create_checked(c, a, folder_name, parent_path, o) ==
    IF c.error # None
    THEN Ret(c.st, [success |-> FALSE, error |-> c.error])
    ELSE create_connected(Calls(c.st, <<<<"GetProjectManager">>,
                                        <<"GetCurrentProject">>>>, o),
                          a, folder_name, parent_path, o)

\* create_folder(folder_name, parent_path)
create_folder(st0, a, folder_name, parent_path, o) ==
    create_checked(initialize_resolve(st0, a, o), a, folder_name, parent_path, o)

-----------------------------------------------------------------------------
(* Focus-and-search automation *)

\* str.lower on the tokens of a shortcut
lower(s) == [i \in 1..Len(s) |-> IF s[i] = "CMD" THEN "cmd" ELSE s[i]]

\* the keys of modifier_map
ModifierNames == {"cmd", "command", "shift", "alt", "option", "ctrl", "control"}

\* modifier_str of the shortcut is not empty (lines 423-439)
has_modifiers(search_shortcut) ==
    LET parts == split(lower(search_shortcut), "+") IN
    \E i \in 1..(Len(parts)-1) :
        Len(parts[i]) = 1 /\ parts[i][1] \in ModifierNames

\* the platform branches of focus_and_search (lines 406-520); the host's
\* clipboard tool is logged like an SDK call, its failure is no
\* CalledProcessError and nothing in the handler catches it
automate(st0, clip_name, search_shortcut, o) ==
    IF o.platform = "darwin"
    THEN LET st == [st0 EXCEPT !.log = Append(@, <<"pbcopy">>)] IN
         IF o.ui = "copy_raises"
         THEN Exc([st EXCEPT !.exc = Raised("pbcopy")])
         ELSE IF o.ui = "activate_fails"
         THEN Ret(st, [success |-> FALSE,
                       error |-> <<"Failed to activate DaVinci Resolve: ", <<"osascript">>>>])
         ELSE IF /\ search_shortcut # None /\ search_shortcut # <<>>
                 /\ has_modifiers(search_shortcut)
                 /\ o.ui # "keystroke_fails"
         THEN Ret(st, [success |-> TRUE, error |-> None, project |-> ProjectName,
                       searchedClip |-> clip_name, autoSearched |-> TRUE])
         ELSE Ret(st, [success |-> TRUE, error |-> None, project |-> ProjectName,
                       searchedClip |-> clip_name, clipboardReady |-> TRUE])
    ELSE IF o.platform = "win"
    THEN IF o.ui = "missing_module"
         THEN Ret(st0, [success |-> FALSE,
                        error |-> <<"Missing module: ", <<"pyautogui">>,
                                    ". Run: pip install pyautogui pyperclip">>])
         ELSE IF o.ui # "ok"
         THEN Ret(st0, [success |-> FALSE,
                        error |-> <<"Failed to automate DaVinci Resolve: ", <<o.ui>>>>])
         ELSE Ret(st0, [success |-> TRUE, error |-> None, project |-> ProjectName,
                        searchedClip |-> clip_name])
    ELSE Ret(st0, [success |-> FALSE,
                   error |-> <<"Platform ", <<o.platform>>,
                               " not supported for UI automation">>])

\* line 403, after SetCurrentFolder
focus_current(st, folder, clip_name, search_shortcut, o) ==
    IF st.exc # None THEN Exc(st)
    ELSE automate([st EXCEPT !.cur = folder], clip_name, search_shortcut, o)

\* lines 402-403, after find_or_create_folder_path
focus_resolved(w, clip_name, search_shortcut, o) ==
    focus_current(Call(w.st, <<"SetCurrentFolder", w.folder>>, o), w.folder,
                  clip_name, search_shortcut, o)

\* lines 395-403, after the project's name
focus_project(st, clip_name, target_folder, search_shortcut, o) ==
    IF st.exc # None THEN Exc(st)
    ELSE IF target_folder = None \/ target_folder = <<>>
    THEN automate(st, clip_name, search_shortcut, o)
    ELSE focus_resolved(
            find_or_create_folder_path(
                Calls(st, <<<<"GetMediaPool">>, <<"GetRootFolder">>>>, o),
                Root, target_folder, o),
            clip_name, search_shortcut, o)

\* lines 389-395, after GetCurrentProject
focus_connected(st, a, clip_name, target_folder, search_shortcut, o) ==
    IF st.exc # None THEN Exc(st)
    ELSE IF a # "open"
    THEN Ret(st, [success |-> FALSE, error |-> <<"No active project in DaVinci Resolve">>])
    ELSE focus_project(Call(st, <<"ProjectGetName">>, o),
                       clip_name, target_folder, search_shortcut, o)

\* lines 379-387, after initialize_resolve
focus_checked(c, a, clip_name, target_folder, search_shortcut, o) ==
    IF c.error # None
    THEN Ret(c.st, [success |-> FALSE, error |-> c.error])
    ELSE focus_connected(Calls(c.st, <<<<"GetProjectManager">>,
                                       <<"GetCurrentProject">>>>, o),
                         a, clip_name, target_folder, search_shortcut, o)

\* focus_and_search(clip_name, target_folder, search_shortcut)
focus_and_search(st0, a, clip_name, target_folder, search_shortcut, o) ==
    focus_checked(initialize_resolve(st0, a, o), a,
                  clip_name, target_folder, search_shortcut, o)

-----------------------------------------------------------------------------
(* The dispatcher.  args is sys.argv without the program name, so args[i]  *)
(* is sys.argv[i] and len(sys.argv) is Len(args) + 1.                      *)

\* sys.argv[i] if len(sys.argv) > i else None
arg_or_none(args, i) == IF Len(args) + 1 > i THEN args[i] ELSE None

\* sys.argv[i] if len(sys.argv) > i and sys.argv[i] else None
nonempty_arg_or_none(args, i) ==
    IF Len(args) + 1 > i /\ args[i] # <<>> THEN args[i] ELSE None

\* the metadata main passes to import_media (lines 544-549)
parse_metadata(args) ==
    IF Len(args) + 1 > 5
    THEN LET m == json_loads(args[5]) IN IF m.kind = "error" THEN NoMetadata ELSE m
    ELSE NoMetadata

Commands == {"status", "import", "list-folders", "create-folder", "focus-search"}

\* what a branch of main hands on: the handler it called ("none" when it
\* called none) and the outcome
Handled(name, h) == [called |-> name, h |-> h]

\* a dispatcher that raises on a command it does not know
unknown_command_raises(st0, command) ==
    Handled("none", Exc([st0 EXCEPT !.exc = <<"Unknown command: ", <<command>>>>]))

\* the last branch of the chain: no handler, a dict with the error only
unknown_command(st0, command) ==
    Handled("none", Ret(st0, [error |-> <<"Unknown command: ", <<command>>>>]))

\* the if/elif chain of main (lines 532-574)
dispatch(st0, a, args, o) ==
    LET command == args[1] IN
    IF command = "status" THEN Handled("get_status", get_status(st0, a, o))
    ELSE IF command = "import"
    THEN IF Len(args) + 1 < 3
         THEN Handled("none", Ret(st0, [success |-> FALSE,
                                        error |-> <<"No file path provided">>]))
         ELSE Handled("import_media",
                      import_media(st0, a, args[2], nonempty_arg_or_none(args, 3),
                                   nonempty_arg_or_none(args, 4), parse_metadata(args), o))
    ELSE IF command = "list-folders" THEN Handled("list_folders", list_folders(st0, a, o))
    ELSE IF command = "create-folder"
    THEN IF Len(args) + 1 < 3
         THEN Handled("none", Ret(st0, [success |-> FALSE,
                                        error |-> <<"No folder name provided">>]))
         ELSE Handled("create_folder",
                      create_folder(st0, a, args[2], arg_or_none(args, 3), o))
    ELSE IF command = "focus-search"
    THEN IF Len(args) + 1 < 3
         THEN Handled("none", Ret(st0, [success |-> FALSE,
                                        error |-> <<"No clip name provided">>]))
         ELSE Handled("focus_and_search",
                      focus_and_search(st0, a, args[2], arg_or_none(args, 3),
                                       arg_or_none(args, 4), o))
    ELSE unknown_command(st0, command)

\* a main that does not call sys.exit(1) in its except branch
exit_code_zero(kind) == 0

\* the exit status of the process for a handler outcome (lines 576-580)
exit_code(kind) == IF kind = "exc" THEN 1 ELSE 0

\* lines 576-580: the result is printed, or the exception's message is
printed(d) ==
    [stdout |-> <<d.h.result>>, exit |-> exit_code(d.h.kind),
     fs |-> d.h.fs, cur |-> d.h.cur, log |-> d.h.log, called |-> d.called]

\* main: what the process prints, its exit status and what it did to the
\* application
main(st0, a, args, o) ==
    IF Len(args) + 1 < 2
    THEN [stdout |-> <<[error |-> <<"No command provided">>]>>, exit |-> 1,
          fs |-> st0.fs, cur |-> st0.cur, log |-> st0.log, called |-> "none"]
    ELSE printed(dispatch(st0, a, args, o))

-----------------------------------------------------------------------------
(* Inputs *)

\* target folder paths, as typed: "", "a", "b", "a/b", " a//b ", "/ "
TargetPaths == { <<>>, <<"a">>, <<"b">>, <<"a", "/", "b">>,
                 <<" ", "a", "/", "/", "b", " ">>, <<"/", " ">> }

\* folder names and parent arguments of create-folder
FolderNames == { <<"a">>, <<"b">> }
ParentArgs == { <<>>, <<"a">>, <<"b">>, <<"a", "/", "b">> }

\* clip names: "" and "n"
ClipNames == { <<>>, <<"n">> }

\* the JSON text of the metadata argument: not JSON, [1], {}, a dict with a
\* scene, a dict with the three keys
MetadataTexts == { <<"oops">>, <<"[", "1", "]">>, <<"{", "}">>,
                   <<"{", "scene", "}">>,
                   <<"{", "scene", "comments", "description", "}">> }

\* shortcuts: "", "cmd+f", "CMD+shift+f", "f"
Shortcuts == { <<>>, <<"cmd", "+", "f">>, <<"CMD", "+", "shift", "+", "f">>, <<"f">> }

\* command words that are no command of the bridge
UnknownWords == {"", "Status", "import ", "delete-folder"}

\* the SDK calls that may raise
Sites == {"scriptapp", "GetProjectManager", "GetCurrentProject", "ProjectGetName",
          "GetMediaPool", "GetRootFolder", "GetCurrentFolder", "GetSubFolderList",
          "FolderGetName", "AddSubFolder", "SetCurrentFolder", "ImportMedia",
          "ClipGetName", "SetClipProperty", "SetMetadata"}

\* An uncaught exception ends the handler, so the calls that raise in one
\* invocation are one call, or the two calls whose exceptions are swallowed.
RaiseSets == {{}} \cup {{s} : s \in Sites} \cup {{"SetClipProperty", "SetMetadata"}}

\* what ImportMedia returns: [], [clip] or [None]
ImportResults == {"empty", "clip", "none_clip"}

\* sys.platform, and what the host's clipboard and keystroke tools do
Platforms == {"darwin", "win", "linux"}
UiResults == {"ok", "copy_raises", "activate_fails", "keystroke_fails", "missing_module"}

\* the application, the SDK and the host behaving well
Nominal == [app |-> "open", raises |-> {}, failAt |-> 0, imp |-> "clip",
            platform |-> "darwin", ui |-> "ok"]

\* What one invocation meets: the situation of the application (it is
\* looked up afresh by every process), the SDK calls that raise, the
\* AddSubFolder call that returns None (0: none), what ImportMedia returns,
\* the platform and the host's tools.
Behaviours == [app : AppStates, raises : RaiseSets, failAt : 0..MaxFailAt,
               imp : ImportResults, platform : Platforms, ui : UiResults]

\* in how many of the first four respects a behaviour is not Nominal
Faults(o) ==
    (IF o.app # Nominal.app THEN 1 ELSE 0) + (IF o.raises # {} THEN 1 ELSE 0)
    + (IF o.failAt # 0 THEN 1 ELSE 0) + (IF o.imp # Nominal.imp THEN 1 ELSE 0)

\* the behaviours met by the commands that do no UI automation: one fault,
\* or a folder creation that fails together with any result of the import
SdkBehaviours ==
    { o \in Behaviours :
        /\ o.platform = Nominal.platform /\ o.ui = Nominal.ui
        /\ Faults(o) <= 1 \/ (o.app = "open" /\ o.raises = {}) }

\* ... by the commands that import nothing
CreateBehaviours == { o \in SdkBehaviours : o.imp = Nominal.imp }

\* ... by the commands that create nothing
StatusBehaviours == { o \in CreateBehaviours : o.failAt = 0 }

\* ... by focus-search: one fault on any platform with any result of the tools
UiBehaviours ==
    { o \in Behaviours :
        /\ o.imp = Nominal.imp
        /\ Faults(o) = 0 \/ (Faults(o) = 1 /\ o.platform = Nominal.platform
                                           /\ o.ui = Nominal.ui) }

StatusArgs == { <<"status">>, <<"status", <<"x">>>> }
ListArgs == { <<"list-folders">> }
ImportArgs ==
    {<<"import">>}
    \cup {<<"import", f>> : f \in Files}
    \cup {<<"import", f, t>> : f \in Files, t \in TargetPaths}
    \cup {<<"import", f, <<>>, c>> : f \in ExistingFiles, c \in ClipNames}
    \cup {<<"import", f, t, <<"n">>, m>> : f \in ExistingFiles, t \in {<<>>, <<"a">>},
                                           m \in MetadataTexts}
CreateArgs ==
    {<<"create-folder">>}
    \cup {<<"create-folder", n>> : n \in FolderNames}
    \cup {<<"create-folder", n, p>> : n \in FolderNames, p \in ParentArgs}
FocusArgs ==
    {<<"focus-search">>, <<"focus-search", <<"n">>>>,
     <<"focus-search", <<"n">>, <<"a", "/", "b">>>>}
    \cup {<<"focus-search", <<"n">>, <<>>, k>> : k \in Shortcuts}
UnknownArgs == {<<w>> : w \in UnknownWords} \cup {<<w, <<"a">>>> : w \in UnknownWords}

-----------------------------------------------------------------------------
(* The state machine: one process per command.  The host starts the       *)
(* bridge (pc goes from "idle" to "done"), reads the JSON it printed and  *)
(* its exit status, and the process is gone (back to "idle").  What lasts *)
(* from one process to the next is the media pool of the application.     *)

Init ==
    /\ folders = <<>>
    /\ current = Root
    /\ pc = "idle"
    /\ argv = <<>>
    /\ sdk = Nominal
    /\ stdout = <<>>
    /\ exit = 0
    /\ log = <<>>
    /\ called = "none"

\* the process has run: m is what main did
Ends(m, args, o) ==
    /\ Len(m.fs) <= MaxFolders
    /\ pc' = "done"
    /\ argv' = args
    /\ sdk' = o
    /\ stdout' = m.stdout
    /\ exit' = m.exit
    /\ log' = m.log
    /\ called' = m.called
    /\ folders' = m.fs
    /\ current' = m.cur

\* what one run of the program with the arguments args does in this state
Process(args, o) ==
    main([fs |-> folders, cur |-> current, log |-> <<>>, exc |-> None],
         o.app, args, o)

Status ==
    \E args \in StatusArgs, o \in StatusBehaviours :
        pc = "idle" /\ Ends(Process(args, o), args, o)

Import ==
    \E args \in ImportArgs, o \in SdkBehaviours :
        pc = "idle" /\ Ends(Process(args, o), args, o)

ListFolders ==
    \E args \in ListArgs, o \in StatusBehaviours :
        pc = "idle" /\ Ends(Process(args, o), args, o)

CreateFolder ==
    \E args \in CreateArgs, o \in CreateBehaviours :
        pc = "idle" /\ Ends(Process(args, o), args, o)

FocusSearch ==
    \E args \in FocusArgs, o \in UiBehaviours :
        pc = "idle" /\ Ends(Process(args, o), args, o)

UnknownCommand ==
    \E args \in UnknownArgs, o \in StatusBehaviours :
        pc = "idle" /\ Ends(Process(args, o), args, o)

NoCommand ==
    \E o \in StatusBehaviours :
        pc = "idle" /\ Ends(Process(<<>>, o), <<>>, o)

\* the host has read the output; the process has exited
HostReads ==
    /\ pc = "done"
    /\ pc' = "idle"
    /\ argv' = <<>>
    /\ sdk' = Nominal
    /\ stdout' = <<>>
    /\ exit' = 0
    /\ log' = <<>>
    /\ called' = "none"
    /\ UNCHANGED <<folders, current>>

Next ==
    \/ Status
    \/ Import
    \/ ListFolders
    \/ CreateFolder
    \/ FocusSearch
    \/ UnknownCommand
    \/ NoCommand
    \/ HostReads

Spec == Init /\ [][Next]_vars

-----------------------------------------------------------------------------
(* What the claims speak of *)

\* the process has run and its output has not been read yet
Done == pc = "done"

\* the JSON object the process printed
Result == stdout[1]

\* the machine a handler would start on in this state
Start == [fs |-> folders, cur |-> current, log |-> <<>>, exc |-> None]

\* the run was the command cmd with at least n arguments after it
Ran(cmd, n) == Done /\ Len(argv) >= n + 1 /\ argv[1] = cmd

\* the result says that the command failed
Failed(r) ==
    \/ "success" \in DOMAIN r /\ ~r.success
    \/ "connected" \in DOMAIN r /\ ~r.connected

\* every data field of the result is null, empty or absent
NoData(r) ==
    /\ \A f \in {"project", "mediaPoolFolder", "folder", "folderName", "clipName"} :
          f \in DOMAIN r => (r[f] = None \/ r[f] = <<>>)
    /\ "folders" \in DOMAIN r => r.folders = <<>>

\* the run met no SDK, an SDK that does not load, an application that is
\* not running or a scriptapp call that raised: initialize_resolve returns
\* an error
NoConnection == sdk.app \in {"nosdk", "badsdk", "down"} \/ "scriptapp" \in sdk.raises

\* the file is not on the file system
Missing(file) == file \notin ExistingFiles

-----------------------------------------------------------------------------
\* C1: when initialize_resolve returns an error, each of the five commands,
\* with any arguments, prints one result that has success or connected
\* false, a non-null error, and every data field null, empty or absent.
C1_NoAppNoData ==
    (Done /\ argv # <<>> /\ argv[1] \in Commands /\ NoConnection)
    => /\ Len(stdout) = 1
       /\ Failed(Result)
       /\ "error" \in DOMAIN Result /\ Result.error # None
       /\ NoData(Result)

\* an import with a folder and a clip name met an application that is down
C1_Witness ==
    /\ Ran("import", 3) /\ sdk.app = "down"
    /\ Result.error = <<"DaVinci Resolve is not running">>
    /\ Result.project = None

\* C2, as claimed: an import of a path that does not exist returns
\* success false with "File not found: <path>" and has contacted nothing.
C2_Original ==
    (Ran("import", 1) /\ Missing(argv[2]))
    => /\ Result = [success |-> FALSE, error |-> <<"File not found: ", argv[2]>>,
                    project |-> None, folder |-> None]
       /\ log = <<>>

\* C2, amended: an import of a path that does not exist returns success
\* false with null project and folder; the connection is attempted first,
\* and when it fails the error is the connection error; when it succeeds
\* the error is "File not found: <path>" and no SDK call beyond the
\* connection (import of the module, scriptapp) has been made.
C2_FileNotFound ==
    (Ran("import", 1) /\ Missing(argv[2]))
    => /\ ~Result.success /\ Result.project = None /\ Result.folder = None
       /\ exit = 0
       /\ IF NoConnection
          THEN Result.error = initialize_resolve(Start, sdk.app, sdk).error
          ELSE /\ Result.error = <<"File not found: ", argv[2]>>
               /\ log = <<<<"import">>, <<"scriptapp">>>>

\* a missing file was imported into a folder while a project was open
C2_Witness ==
    /\ Ran("import", 2) /\ Missing(argv[2]) /\ sdk.app = "open"
    /\ Result.error = <<"File not found: ", argv[2]>>
    /\ argv[3] # <<>>

\* C3, as claimed: a result with a non-null error, or with success or
\* connected false, has every data field null, empty or absent.
C3_Original ==
    (Done /\ (Failed(Result) \/ Result.error # None)) => NoData(Result)

\* the result of an import whose ImportMedia call returned no clip
ImportReturnedNothing(r) ==
    /\ called = "import_media"
    /\ r = [success |-> FALSE,
            error |-> <<"Failed to import media into DaVinci Resolve">>,
            project |-> ProjectName, folder |-> r.folder]
    /\ r.folder # None

\* C3, amended: a result with a non-null error, or with success or
\* connected false, has every data field null, empty or absent, except the
\* result of an import whose ImportMedia call returned no clip: it carries
\* the project name and the folder name, and no clipName.
C3_ErrorZeroesData ==
    (Done /\ (Failed(Result) \/ Result.error # None))
    => (NoData(Result) \/ ImportReturnedNothing(Result))

\* status found no open project: connected, an error, and null data
C3_Witness ==
    /\ Ran("status", 0) /\ sdk.app = "noproject"
    /\ Result.connected /\ Result.error # None /\ NoData(Result)

-----------------------------------------------------------------------------
\* the SDK behaving well for one more call in this state
Again == [sdk EXCEPT !.app = "open", !.raises = {}, !.failAt = 0]

\* the run resolved the folder path argv[3] to the end: it set the folder
\* it got as the current folder, and no AddSubFolder call returned None
ResolvedPath ==
    /\ Done /\ called \in {"import_media", "focus_and_search"} /\ exit = 0
    /\ Len(argv) >= 3 /\ argv[3] # <<>>
    /\ \E i \in 1..Len(log) : log[i][1] = "SetCurrentFolder"
    /\ sdk.failAt = 0 \/ CountAdds(log) < sdk.failAt

\* C4: after find_or_create_folder_path has resolved a path from the root
\* with every creation succeeding, applying it again to the same path from
\* the same root creates no folder, leaves the tree as it is and returns the
\* folder the first call returned.
C4_ResolveTwice ==
    ResolvedPath
    => LET again == find_or_create_folder_path(Start, Root, argv[3], Again) IN
       /\ again.st.exc = None
       /\ CountAdds(again.st.log) = 0
       /\ again.st.fs = folders
       /\ again.folder = current

\* " a//b " was resolved by creating both a and b
C4_Witness ==
    /\ ResolvedPath /\ called = "import_media"
    /\ argv[3] = <<" ", "a", "/", "/", "b", " ">>
    /\ CountAdds(log) = 2 /\ Len(folders) = 2

\* C5: when create-folder X, with or without a parent argument, reports
\* success, a list-folders command run next on the open project returns
\* success with a folders list that has an entry named X.
C5_CreatedIsListed ==
    (Ran("create-folder", 1) /\ "success" \in DOMAIN Result /\ Result.success)
    => LET next == list_folders(Start, "open", Again).result IN
       /\ next.success
       /\ \E i \in 1..Len(next.folders) : next.folders[i].name = argv[2]

\* b was created below the existing folder a
C5_Witness ==
    /\ Ran("create-folder", 2) /\ "success" \in DOMAIN Result /\ Result.success
    /\ argv[2] = <<"b">> /\ argv[3] = <<"a">>
    /\ folders[Len(folders)].parent # Root

\* the path of a folder, built from the folder up to the root
RECURSIVE PathOf(_, _)
PathOf(fs, f) ==
    IF f = Root THEN MasterName
    ELSE PathOf(fs, fs[f].parent) \o <<"/">> \o fs[f].name

\* d lies below a
RECURSIVE Below(_, _, _)
Below(fs, a, d) == d # Root /\ (fs[d].parent = a \/ Below(fs, a, fs[d].parent))

\* the position of folder f in the list of its parent's subfolders
PlaceOf(fs, f) ==
    LET subs == GetSubFolderList(fs, fs[f].parent) IN
    CHOOSE k \in 1..Len(subs) : subs[k] = f

\* ord lists every folder once, in depth-first pre-order: the root first,
\* the folders below a folder right after it and without a gap, and the
\* subfolders of a folder in the order the SDK lists them
PreOrder(fs, ord) ==
    /\ \A i, j \in DOMAIN ord : ord[i] = ord[j] => i = j
    /\ ord[1] = Root
    /\ \A i, j \in DOMAIN ord :
          Below(fs, ord[i], ord[j])
          => /\ i < j
             /\ \A k \in (i+1)..j : Below(fs, ord[i], ord[k])
    /\ \A i, j \in DOMAIN ord :
          (/\ ord[i] # Root /\ ord[j] # Root
           /\ fs[ord[i]].parent = fs[ord[j]].parent
           /\ PlaceOf(fs, ord[i]) < PlaceOf(fs, ord[j])) => i < j

C7_UnknownCommand ==
    (Done /\ argv # <<>> /\ argv[1] \notin Commands)
    => /\ stdout = <<[error |-> <<"Unknown command: ", <<argv[1]>>>>]>>
       /\ exit = 0
       /\ called = "none"
       /\ log = <<>>

\* "Status" with an argument, while the application is down
C7_Witness ==
    /\ Ran("Status", 1) /\ sdk.app = "down"
    /\ Result.error = <<"Unknown command: ", <<"Status">>>>

-----------------------------------------------------------------------------
\* the SDK calls whose exceptions the code catches where it makes them
CaughtSites == {"scriptapp", "SetClipProperty", "SetMetadata"}

\* the run made the SDK call `site`
Made(site) == \E i \in 1..Len(log) : log[i][1] = site

\* ImportMedia was called and returned at least one clip
ImportGaveClip ==
    /\ Done /\ called = "import_media" /\ Made("ImportMedia")
    /\ "ImportMedia" \notin sdk.raises
    /\ sdk.imp \in {"clip", "none_clip"}

\* C8: when ImportMedia returns at least one clip and nothing but the rename
\* and the metadata calls raises, import returns success true with a null
\* error, whether or not SetClipProperty or SetMetadata raise; when the
\* rename raises, clipName is the name the clip had, not the requested one.
C8_BestEffort ==
    (ImportGaveClip /\ sdk.raises \subseteq {"SetClipProperty", "SetMetadata"})
    => /\ exit = 0
       /\ Result.success /\ Result.error = None
       /\ (Made("SetClipProperty") /\ "SetClipProperty" \in sdk.raises)
          => (Result.clipName = <<argv[2][Len(argv[2])]>> /\ Result.clipName # argv[4])

\* the rename and the first metadata call both raised, the import succeeded
C8_Witness ==
    /\ ImportGaveClip /\ sdk.raises = {"SetClipProperty", "SetMetadata"}
    /\ Made("SetClipProperty") /\ Made("SetMetadata") /\ Made("warning")
    /\ Result.success /\ Result.clipName = <<"a.mp4">>

\* an exception reached the try of main: an SDK call outside every inner
\* try raised, or the clipboard tool could not be started
Uncaught ==
    \E i \in 1..Len(log) :
        \/ log[i][1] \in sdk.raises \ CaughtSites
        \/ log[i][1] = "pbcopy" /\ sdk.ui = "copy_raises"

\* a command that needs an argument got none, or no command was given
MissingArgument ==
    \/ argv = <<>>
    \/ Len(argv) = 1 /\ argv[1] \in {"import", "create-folder", "focus-search"}

\* one of the expected failures happened and no exception reached main
ExpectedFailure ==
    /\ ~Uncaught
    /\ \/ MissingArgument
       \/ /\ argv[1] \in Commands
          /\ \/ NoConnection
             \/ sdk.app = "noproject"
             \/ argv[1] = "import" /\ Missing(argv[2])
             \/ sdk.failAt # 0 /\ CountAdds(log) = sdk.failAt

\* the result is a dict of a handler or of main's argument checks
NormalResult(r) ==
    /\ "error" \in DOMAIN r
    /\ "success" \in DOMAIN r \/ "connected" \in DOMAIN r

\* C9, as claimed: every run prints exactly one JSON object; an exception
\* that reaches main gives {error: <message>} and a non-zero exit status;
\* an expected failure (application not running, no project, file missing,
\* folder creation failure, missing argument) gives a normal result and
\* exit status 0.
C9_Original ==
    Done => /\ Len(stdout) = 1
            /\ Uncaught => (DOMAIN Result = {"error"} /\ exit # 0)
            /\ ExpectedFailure => (NormalResult(Result) /\ exit = 0)

\* C9, amended: every run prints exactly one JSON object.  An exception
\* that reaches main gives {error: <message>} and exit status 1.  A run
\* without any command gives {error: "No command provided"} and exit status
\* 1, though nothing was raised.  Every other run ends with exit status 0:
\* an unknown command with its error dict, and a command, also one that
\* met an expected failure or lacks its argument, with a normal result.
C9_OneJsonObject ==
    Done => /\ Len(stdout) = 1
            /\ Uncaught => /\ Result = [error |-> Raised(log[Len(log)][1])]
                           /\ exit = 1
            /\ argv = <<>> => /\ Result = [error |-> <<"No command provided">>]
                              /\ exit = 1 /\ log = <<>>
            /\ (~Uncaught /\ argv # <<>>)
               => /\ exit = 0
                  /\ argv[1] \in Commands => NormalResult(Result)
                  /\ (ExpectedFailure /\ argv[1] \in Commands)
                     => (Result.error # None \/ called = "import_media"
                                             \/ called = "focus_and_search")

\* GetSubFolderList raised in the middle of an import into a new folder
C9_Witness ==
    /\ Ran("import", 2) /\ sdk.raises = {"GetSubFolderList"}
    /\ Uncaught /\ exit = 1
    /\ Result = [error |-> Raised("GetSubFolderList")]

-----------------------------------------------------------------------------
\* s without the spaces at its ends
Trimmed(s) ==
    LET solid == {i \in 1..Len(s) : s[i] # " "} IN
    IF solid = {} THEN <<>>
    ELSE SubSeq(s, CHOOSE i \in solid : \A j \in solid : i <= j,
                   CHOOSE i \in solid : \A j \in solid : i >= j)

NotEmpty(s) == s # <<>>

\* the segments of a path that name a folder
Segments(path) ==
    LET parts == split(path, "/") IN
    SelectSeq([i \in 1..Len(parts) |-> Trimmed(parts[i])], NotEmpty)

\* paths that are empty or have empty segments only
BlankPaths == { <<>>, <<" ">>, <<"/">>, <<"/", " ">>, <<" ", "/", "/", " ">> }

\* the names of the folders from below the root down to f
RECURSIVE NamesTo(_, _)
NamesTo(fs, f) ==
    IF f = Root THEN <<>> ELSE Append(NamesTo(fs, fs[f].parent), fs[f].name)

\* the place in the log of the last AddSubFolder call
LastAdd == CHOOSE i \in 1..Len(log) :
              /\ log[i][1] = "AddSubFolder"
              /\ \A j \in (i+1)..Len(log) : log[j][1] # "AddSubFolder"

\* the import resolved its folder path and one AddSubFolder call of the
\* resolution returned None
CreationFailed ==
    /\ Ran("import", 2) /\ called = "import_media" /\ sdk.raises = {}
    /\ sdk.failAt # 0 /\ CountAdds(log) = sdk.failAt

\* the import resolved a folder path that has empty segments only
BlankResolved ==
    /\ Ran("import", 2) /\ called = "import_media" /\ sdk.raises = {}
    /\ argv[3] # <<>> /\ Segments(argv[3]) = <<>>
    /\ Made("GetRootFolder")

\* what the claim says of the state after such an import
AfterFailure ==
    LET reached == log[LastAdd][2]
        depth   == Len(NamesTo(folders, reached))
        segs    == Segments(argv[3])
    IN  /\ NamesTo(folders, reached) = SubSeq(segs, 1, depth)
        /\ log[LastAdd] = <<"AddSubFolder", reached, segs[depth + 1]>>
        /\ SubSeq(log, LastAdd + 1, LastAdd + 3)
              = << <<"FolderGetName", reached>>, <<"SetCurrentFolder", reached>>,
                   <<"ImportMedia", reached, argv[2]>> >>
        /\ \A j \in (LastAdd + 1)..Len(log) :
              log[j][1] \notin {"GetSubFolderList", "AddSubFolder"}
        /\ current = reached
        /\ exit = 0
        /\ Result.folder = GetName(folders, reached)
        /\ Result.project = ProjectName
        /\ Result.success = (sdk.imp # "empty")
        /\ sdk.imp # "empty" => Result.error = None

-----------------------------------------------------------------------------
\* the immediate children of the root that bear the name p
RootChildrenNamed(fs, p) ==
    { i \in 1..Len(fs) : fs[i].parent = Root /\ fs[i].name = p }

\* the parent the claim names for the arguments args in the tree fs: the
\* first immediate child of the root named as the parent argument, the
\* root when the argument is absent or empty or names no such child
ParentChosen(fs, args) ==
    IF Len(args) < 3 THEN Root
    ELSE IF args[3] = <<>> \/ RootChildrenNamed(fs, args[3]) = {} THEN Root
    ELSE CHOOSE i \in RootChildrenNamed(fs, args[3]) :
            \A j \in RootChildrenNamed(fs, args[3]) : i <= j

\* create-folder ran with a folder name
CreateRan == Ran("create-folder", 1) /\ called = "create_folder"

\* create_folder reached the choice of the parent and no SDK call raised
ParentWasChosen == CreateRan /\ sdk.app = "open" /\ sdk.raises = {}

\* C11: when create-folder gets as far as choosing the parent, it makes
\* exactly one AddSubFolder call, for the name given and under the first
\* immediate child of the root whose name equals the parent argument, or
\* under the root when there is no parent argument, when it is empty and
\* when no immediate child bears that name (a deeper folder of that name
\* or a path of several segments is not followed).  The folder is added
\* there when the call succeeds and the tree is unchanged when the call
\* returns None; no other folder is created or changed and the current
\* folder stays.  Whatever happens, a create-folder run makes at most one
\* AddSubFolder call and changes the tree by at most that one folder.
C11_ParentAmongRootChildren ==
    [][ /\ ParentWasChosen'
           => /\ CountAdds(log') = 1
              /\ log'[LastAdd'] = <<"AddSubFolder", ParentChosen(folders, argv'), argv'[2]>>
              /\ \A j \in 1..Len(log') :
                    log'[j][1] = "GetSubFolderList" => log'[j][2] = Root
              /\ folders' = IF sdk'.failAt = 1 THEN folders
                            ELSE Append(folders, [name |-> argv'[2],
                                                  parent |-> ParentChosen(folders, argv')])
              /\ Result'.success = (sdk'.failAt # 1)
              /\ current' = current
        /\ (Done' /\ Len(argv') >= 1 /\ argv'[1] = "create-folder")
           => /\ CountAdds(log') <= 1
              /\ Len(folders') <= Len(folders) + 1
              /\ SubSeq(folders', 1, Len(folders)) = folders
              /\ current' = current
      ]_vars

\* b was created under a, the root's child of that name
C11_Witness ==
    /\ ParentWasChosen /\ argv = <<"create-folder", <<"b">>, <<"a">>>>
    /\ Len(folders) = 2
    /\ folders[1] = [name |-> <<"a">>, parent |-> Root]
    /\ folders[2] = [name |-> <<"b">>, parent |-> 1]
    /\ log[LastAdd] = <<"AddSubFolder", 1, <<"b">>>>
    /\ Result.success

====
